---- MODULE Spec2Model ----
(***************************************************************************)
(* Model of src/game.py: the 4x4 sliding-tile game (class Game), its game  *)
(* loop (main) and the module-level code that follows the __main__ guard.  *)
(*                                                                         *)
(* Two specifications share the variables:                                 *)
(*   Spec        the program run as a script: main() constructs a Game,    *)
(*               reads lines until q, returns, and the module tail runs.   *)
(*   SpecEngine  one call of a Game method (move_left, move_right,         *)
(*               move_up, move_down, add_new_tile) on a board drawn from   *)
(*               a bounded set of boards.                                  *)
(* Python indices 0..3 are 1..4 here.                                      *)
(***************************************************************************)
EXTENDS Naturals, Sequences, FiniteSets

VARIABLES
    board,         \* self.board of the live Game: 4 rows of 4 cells
    pre,           \* self.board as it was before the last step
    pc,            \* control position
    op,            \* the Game method the last step called ("none" if none)
    ret,           \* what the last move call returned (changed)
    line,          \* the last line input() returned, a sequence of characters
    inputs,        \* number of lines read so far
    changedMoves,  \* number of move calls that returned True so far
    spawns,        \* number of add_new_tile calls so far
    spawned,       \* number of add_new_tile calls made by the last step
    spawnSum,      \* sum of the values add_new_tile has written so far
    games          \* number of Game objects constructed so far

vars == <<board, pre, pc, op, ret, line, inputs, changedMoves,
          spawns, spawned, spawnSum, games>>

(***************************************************************************)
(* Program constants and bounds                                            *)
(***************************************************************************)
\* side of the board: [[0] * 4 for _ in range(4)]
N == 4

\* bound of the game loop: lines read before the one that quits
MaxInputs == 1
\* longest input line
MaxLineLen == 2
\* bounds of the boards a single call is tried on: number of tiles of a
\* sparse board and the largest exponent of a tile
MaxTiles == 2
MaxExp == 2

Idx == 1..N
Cells == Idx \X Idx

\* [[0] * 4 for _ in range(4)]
ZeroBoard == [i \in Idx |-> [j \in Idx |-> 0]]

\* the sum of the 16 cells of a board
BoardSum(b) ==
    LET R(r) == r[1] + r[2] + r[3] + r[4]
    IN  R(b[1]) + R(b[2]) + R(b[3]) + R(b[4])

\* the sum of the values written to get from board b to board b2
written(b, b2) ==
    LET W(i, j) == IF b2[i][j] # b[i][j] THEN b2[i][j] ELSE 0
        R(i) == W(i, 1) + W(i, 2) + W(i, 3) + W(i, 4)
    IN  R(1) + R(2) + R(3) + R(4)

(***************************************************************************)
(* Game.add_new_tile                                                       *)
(***************************************************************************)
\* [(i, j) for i in range(4) for j in range(4) if self.board[i][j] == 0]
empty_cells(b) == {c \in Cells : b[c[1]][c[2]] = 0}

\* random.choice([2, 4])
TileChoices == {2, 4}

\* add_new_tile without the filter on empty cells: any cell may be written
add_new_tile_any_cell(b) ==
    {[b EXCEPT ![c[1]][c[2]] = v] : c \in Cells, v \in TileChoices}

\* the boards add_new_tile can leave: any empty cell, either value; the
\* board itself when no cell is empty
add_new_tile(b) ==
    IF empty_cells(b) # {}
    THEN {[b EXCEPT ![c[1]][c[2]] = v] : c \in empty_cells(b), v \in TileChoices}
    ELSE {b}

\* Game.__init__ whose second tile may land on the first
Game_init_overwriting ==
    UNION {add_new_tile_any_cell(b1) : b1 \in add_new_tile(ZeroBoard)}

\* Game.__init__: an empty board and two add_new_tile calls
Game_init == UNION {add_new_tile(b1) : b1 \in add_new_tile(ZeroBoard)}

(***************************************************************************)
(* Game.move_left                                                          *)
(***************************************************************************)
\* resolve with a merge that forgets `self.board[row][k] = 0`
resolve_keep_k(r, col, k) ==
    IF r[col] = 0
    THEN [row |-> [r EXCEPT ![col] = r[k], ![k] = 0], changed |-> TRUE]
    ELSE IF r[col] = r[k]
         THEN [row |-> [r EXCEPT ![col] = r[col] * 2], changed |-> TRUE]
         ELSE [row |-> r, changed |-> FALSE]

\* resolve with a merge that forgets `changed = True`
resolve_unflagged_merge(r, col, k) ==
    IF r[col] = 0
    THEN [row |-> [r EXCEPT ![col] = r[k], ![k] = 0], changed |-> TRUE]
    ELSE IF r[col] = r[k]
         THEN [row |-> [r EXCEPT ![col] = r[col] * 2, ![k] = 0], changed |-> FALSE]
         ELSE [row |-> r, changed |-> FALSE]

\* resolve with a shift that copies the tile and leaves it at k as well
resolve_copy(r, col, k) ==
    IF r[col] = 0
    THEN [row |-> [r EXCEPT ![col] = r[k]], changed |-> TRUE]
    ELSE IF r[col] = r[k]
         THEN [row |-> [r EXCEPT ![col] = r[col] * 2, ![k] = 0], changed |-> TRUE]
         ELSE [row |-> r, changed |-> FALSE]

\* resolve with a merge that forgets to compare the two cells
resolve_merge_any(r, col, k) ==
    IF r[col] = 0
    THEN [row |-> [r EXCEPT ![col] = r[k], ![k] = 0], changed |-> TRUE]
    ELSE [row |-> [r EXCEPT ![col] = r[col] + r[k], ![k] = 0], changed |-> TRUE]

\* resolve whose merge leaves the value of col as it was
resolve_merge_no_double(r, col, k) ==
    IF r[col] = 0
    THEN [row |-> [r EXCEPT ![col] = r[k], ![k] = 0], changed |-> TRUE]
    ELSE IF r[col] = r[k]
         THEN [row |-> [r EXCEPT ![k] = 0], changed |-> TRUE]
         ELSE [row |-> r, changed |-> FALSE]

\* the body of `if self.board[row][k] != 0:` for a row r: shift into an
\* empty cell, merge equal cells, or leave both; then break
resolve(r, col, k) ==
    IF r[col] = 0
    THEN [row |-> [r EXCEPT ![col] = r[k], ![k] = 0], changed |-> TRUE]
    ELSE IF r[col] = r[k]
         THEN [row |-> [r EXCEPT ![col] = r[col] * 2, ![k] = 0], changed |-> TRUE]
         ELSE [row |-> r, changed |-> FALSE]

\* a scan that looks at the cell next to col only
scan_adjacent_only(r, col, k) ==
    IF k > N THEN [row |-> r, changed |-> FALSE]
    ELSE IF r[k] # 0 THEN resolve(r, col, k)
    ELSE [row |-> r, changed |-> FALSE]

\* for k in range(col + 1, 4): from k on
RECURSIVE scan(_, _, _)
scan(r, col, k) ==
    IF k > N THEN [row |-> r, changed |-> FALSE]
    ELSE IF r[k] # 0 THEN resolve(r, col, k)
    ELSE scan(r, col, k + 1)

\* for col in range(3): from col on
RECURSIVE merge_cols(_, _, _)
merge_cols(r, col, changed) ==
    IF col > N - 1 THEN [row |-> r, changed |-> changed]
    ELSE LET s == scan(r, col, col + 1)
         IN  merge_cols(s.row, col + 1, changed \/ s.changed)

\* for row in range(4): from row on
RECURSIVE merge_rows(_, _, _)
merge_rows(b, row, changed) ==
    IF row > N THEN [board |-> b, changed |-> changed]
    ELSE LET m == merge_cols(b[row], 1, changed)
         IN  merge_rows([b EXCEPT ![row] = m.row], row + 1, m.changed)

\* move_left that runs the pass over the rows a second time
move_left_two_passes(b) ==
    LET m == merge_rows(b, 1, FALSE)
    IN  merge_rows(m.board, 1, m.changed)

move_left(b) == merge_rows(b, 1, FALSE)

(***************************************************************************)
(* Game.move_right, move_up, move_down                                     *)
(***************************************************************************)
\* list.reverse()
list_reverse(r) == [j \in 1..Len(r) |-> r[Len(r) + 1 - j]]

\* for row in self.board: row.reverse()
reverse_rows(b) == [i \in 1..Len(b) |-> list_reverse(b[i])]

\* list(map(list, zip(*self.board)))
zip_rows(b) == [j \in 1..Len(b[1]) |-> [i \in 1..Len(b) |-> b[i][j]]]

move_right(b) ==
    LET m == move_left(reverse_rows(b))
    IN  [board |-> reverse_rows(m.board), changed |-> m.changed]

\* move_up that returns True whatever it did
move_up_always_true(b) ==
    LET m == move_left(zip_rows(b))
    IN  [board |-> zip_rows(m.board), changed |-> TRUE]

move_up(b) ==
    LET m == move_left(zip_rows(b))
    IN  [board |-> zip_rows(m.board), changed |-> m.changed]

\* move_down that calls move_left on the transposed board
move_down_calls_left(b) ==
    LET m == move_left(zip_rows(b))
    IN  [board |-> zip_rows(m.board), changed |-> m.changed]

move_down(b) ==
    LET m == move_right(zip_rows(b))
    IN  [board |-> zip_rows(m.board), changed |-> m.changed]

(***************************************************************************)
(* main: the input line and the dispatch                                   *)
(***************************************************************************)
Lowercase == {"w", "s", "a", "d", "q", "x"}
Uppercase == {"W", "S", "A", "D", "Q", "X"}
Alphabet == Lowercase \cup Uppercase \cup {" "}

\* the lines input() can return
InputLines == UNION {[1..n -> Alphabet] : n \in 0..MaxLineLen}

\* str.lower() that leaves every character as it is
lower_char_identity(c) == c

\* str.lower() of one character
lower_char(c) ==
    CASE c = "W" -> "w" [] c = "S" -> "s" [] c = "A" -> "a"
      [] c = "D" -> "d" [] c = "Q" -> "q" [] c = "X" -> "x"
      [] OTHER -> c

\* str.lower()
lower(l) == [i \in 1..Len(l) |-> lower_char(l[i])]

\* the dict `moves`: key -> bound method
moves == [w |-> "move_up", s |-> "move_down", a |-> "move_left", d |-> "move_right"]

\* a quit on the first character of the line
is_quit_first_char(move) == Len(move) >= 1 /\ move[1] = "q"

\* move == 'q'
is_quit(move) == move = <<"q">>

\* a dispatch on the first character of the line
in_moves_first_char(move) == Len(move) >= 1 /\ move[1] \in DOMAIN moves

\* move in moves
in_moves(move) == Len(move) = 1 /\ move[1] \in DOMAIN moves

\* moves[move]()
call_move(name, b) ==
    CASE name = "move_up" -> move_up(b)
      [] name = "move_down" -> move_down(b)
      [] name = "move_left" -> move_left(b)
      [] name = "move_right" -> move_right(b)

\* the loop's step after a move that always calls add_new_tile
after_move_always_spawn(m) == [boards |-> add_new_tile(m.board), spawned |-> 1]

\* if moves[move](): game.add_new_tile()
\* the boards the step can leave and the number of add_new_tile calls
after_move(m) ==
    IF m.changed
    THEN [boards |-> add_new_tile(m.board), spawned |-> 1]
    ELSE [boards |-> {m.board}, spawned |-> 0]

(***************************************************************************)
(* The program run as a script                                             *)
(***************************************************************************)
Init ==
    /\ board = ZeroBoard
    /\ pre = ZeroBoard
    /\ pc = "start"
    /\ op = "none"
    /\ ret = FALSE
    /\ line = <<>>
    /\ inputs = 0
    /\ changedMoves = 0
    /\ spawns = 0
    /\ spawned = 0
    /\ spawnSum = 0
    /\ games = 0

\* main, line 100: game = Game()
MainStart ==
    /\ pc = "start"
    /\ board' \in Game_init
    /\ pre' = ZeroBoard
    /\ pc' = "prompt"
    /\ op' = "__init__"
    /\ spawns' = spawns + 2
    /\ spawned' = 2
    /\ spawnSum' = spawnSum + written(ZeroBoard, board')
    /\ games' = games + 1
    /\ UNCHANGED <<ret, line, inputs, changedMoves>>

\* the loop iteration that reads the line l = q: break, main returns
IterateQuit(l) ==
    /\ pc = "prompt"
    /\ is_quit(lower(l))
    /\ line' = l
    /\ inputs' = inputs + 1
    /\ pc' = "returned"
    /\ pre' = board
    /\ op' = "none"
    /\ spawned' = 0
    /\ UNCHANGED <<board, ret, changedMoves, spawns, spawnSum, games>>

\* the loop iteration that reads the line l, a key of `moves`: the move,
\* then add_new_tile if it returned True
IterateMove(l) ==
    /\ pc = "prompt"
    /\ ~ is_quit(lower(l))
    /\ in_moves(lower(l))
    /\ line' = l
    /\ \E name \in {moves[lower(l)[1]]} :
       \E m \in {call_move(name, board)} :
       \E a \in {after_move(m)} :
           /\ op' = name
           /\ ret' = m.changed
           /\ board' \in a.boards
           /\ spawned' = a.spawned
           /\ spawns' = spawns + a.spawned
           /\ spawnSum' = spawnSum + (IF a.spawned = 1 THEN written(m.board, board')
                                                      ELSE 0)
           /\ changedMoves' = IF m.changed THEN changedMoves + 1
                                          ELSE changedMoves
    /\ inputs' = inputs + 1
    /\ pre' = board
    /\ UNCHANGED <<pc, games>>

\* the loop iteration that reads any other line l
IterateIgnore(l) ==
    /\ pc = "prompt"
    /\ ~ is_quit(lower(l))
    /\ ~ in_moves(lower(l))
    /\ line' = l
    /\ inputs' = inputs + 1
    /\ pre' = board
    /\ op' = "none"
    /\ spawned' = 0
    /\ UNCHANGED <<board, pc, ret, changedMoves, spawns, spawnSum, games>>

\* one loop iteration that reads q
LoopQuit == \E l \in InputLines : IterateQuit(l)

\* one loop iteration that reads a key of `moves`
LoopMove == inputs < MaxInputs /\ \E l \in InputLines : IterateMove(l)

\* one loop iteration that reads any other line
LoopIgnore == inputs < MaxInputs /\ \E l \in InputLines : IterateIgnore(l)

\* lines 124-125, after main() has returned: game = Game(); game.display()
ModuleTail ==
    /\ pc = "returned"
    /\ board' \in Game_init
    /\ pre' = ZeroBoard
    /\ pc' = "exit"
    /\ op' = "__init__"
    /\ spawns' = spawns + 2
    /\ spawned' = 2
    /\ spawnSum' = spawnSum + written(ZeroBoard, board')
    /\ games' = games + 1
    /\ UNCHANGED <<ret, line, inputs, changedMoves>>

Next ==
    \/ MainStart
    \/ LoopQuit
    \/ LoopMove
    \/ LoopIgnore
    \/ ModuleTail

Spec == Init /\ [][Next]_vars

(***************************************************************************)
(* One long run of the script: the lines read and the outcomes of          *)
(* random.choice are fixed for the first Len(Play) iterations, which fill  *)
(* the board; after them every line can be read again                      *)
(***************************************************************************)
\* the two tiles the constructor places in this run
PlayInitBoard == [ZeroBoard EXCEPT ![4][2] = 2, ![3][1] = 2]

\* per iteration: the line read, and the cell and value add_new_tile picks
PlayStep(l, i, j, v) == [line |-> <<l>>, cell |-> <<i, j>>, tile |-> v]

Play ==
    << PlayStep("a", 2, 4, 4), PlayStep("w", 3, 3, 2), PlayStep("d", 4, 1, 2),
       PlayStep("w", 4, 2, 4), PlayStep("s", 2, 1, 4), PlayStep("a", 2, 4, 2),
       PlayStep("a", 1, 2, 4), PlayStep("d", 1, 3, 2), PlayStep("a", 3, 4, 2),
       PlayStep("a", 1, 4, 2), PlayStep("a", 3, 3, 4), PlayStep("d", 2, 1, 2),
       PlayStep("a", 3, 4, 2), PlayStep("d", 1, 1, 4), PlayStep("a", 2, 4, 4) >>

\* the lines read after the play, at most
MaxFreeInputs == 2

\* main, line 100, with the constructor's choices of this run
PlayStart ==
    /\ MainStart
    /\ board' = PlayInitBoard

\* the next iteration of the play: the loop iteration on its line, with
\* add_new_tile picking its cell and value
PlayMove ==
    /\ inputs < Len(Play)
    /\ \E e \in {Play[inputs + 1]} :
           /\ IterateMove(e.line)
           /\ spawned' = 1
           /\ call_move(moves[e.line[1]], board).board[e.cell[1]][e.cell[2]] = 0
           /\ board'[e.cell[1]][e.cell[2]] = e.tile

\* the iterations after the play, on any line
AfterPlayMove ==
    /\ Len(Play) <= inputs
    /\ inputs < Len(Play) + MaxFreeInputs
    /\ \E l \in InputLines : IterateMove(l)

AfterPlayIgnore ==
    /\ Len(Play) <= inputs
    /\ inputs < Len(Play) + MaxFreeInputs
    /\ \E l \in InputLines : IterateIgnore(l)

NextPlay ==
    \/ PlayStart
    \/ PlayMove
    \/ AfterPlayMove
    \/ AfterPlayIgnore
    \/ LoopQuit
    \/ ModuleTail

SpecPlay == Init /\ [][NextPlay]_vars

(***************************************************************************)
(* One call of a Game method on a given board                              *)
(***************************************************************************)
\* the tiles of the boards a call is tried on: 2, 4, .., 2^MaxExp
RECURSIVE Pow2(_)
Pow2(e) == IF e = 0 THEN 1 ELSE 2 * Pow2(e - 1)
InputTiles == {Pow2(e) : e \in 1..MaxExp}

\* the board with the tiles f[c] on the cells c of DOMAIN f, 0 elsewhere
BoardOf(f) ==
    [i \in Idx |-> [j \in Idx |-> IF <<i, j>> \in DOMAIN f THEN f[<<i, j>>] ELSE 0]]

\* boards of at most MaxTiles tiles, anywhere
SparseBoards ==
    {BoardOf(f) : f \in UNION {[S -> InputTiles] :
                       S \in {T \in SUBSET Cells : Cardinality(T) <= MaxTiles}}}

\* every row over 0 and the tiles, and every row of tiles only
AllRows == [Idx -> InputTiles \cup {0}]
FullRows == [Idx -> InputTiles]

\* boards of one arbitrary row, or one arbitrary column, and zeros
LineBoards ==
    {[ZeroBoard EXCEPT ![i] = r] : i \in Idx, r \in AllRows}
        \cup {[i \in Idx |-> [j \in Idx |-> IF j = k THEN r[i] ELSE 0]] :
                  k \in Idx, r \in AllRows}

\* boards with no empty cell: two rows of tiles, alternating
DenseBoards == {<<r1, r2, r1, r2>> : r1 \in FullRows, r2 \in FullRows}

InputBoards == SparseBoards \cup LineBoards \cup DenseBoards

InitEngine ==
    /\ board \in InputBoards
    /\ pre = board
    /\ pc = "call"
    /\ op = "none"
    /\ ret = FALSE
    /\ line = <<>>
    /\ inputs = 0
    /\ changedMoves = 0
    /\ spawns = 0
    /\ spawned = 0
    /\ spawnSum = 0
    /\ games = 1

\* a call of the move method `name` on the board
CallMove(name) ==
    /\ pc = "call"
    /\ LET m == call_move(name, board)
       IN  /\ board' = m.board
           /\ ret' = m.changed
           /\ changedMoves' = IF m.changed THEN changedMoves + 1 ELSE changedMoves
    /\ pre' = board
    /\ pc' = "ret"
    /\ op' = name
    /\ spawned' = 0
    /\ UNCHANGED <<line, inputs, spawns, spawnSum, games>>

CallMoveLeft == CallMove("move_left")
CallMoveRight == CallMove("move_right")
CallMoveUp == CallMove("move_up")
CallMoveDown == CallMove("move_down")

\* a call of add_new_tile on the board
CallAddNewTile ==
    /\ pc = "call"
    /\ board' \in add_new_tile(board)
    /\ pre' = board
    /\ pc' = "ret"
    /\ op' = "add_new_tile"
    /\ spawned' = 1
    /\ spawns' = spawns + 1
    /\ spawnSum' = spawnSum + written(board, board')
    /\ UNCHANGED <<ret, line, inputs, changedMoves, games>>

NextEngine ==
    \/ CallMoveLeft
    \/ CallMoveRight
    \/ CallMoveUp
    \/ CallMoveDown
    \/ CallAddNewTile

SpecEngine == InitEngine /\ [][NextEngine]_vars

(***************************************************************************)
(* Definitions the properties are stated with                              *)
(***************************************************************************)
MoveNames == {"move_left", "move_right", "move_up", "move_down"}

\* the last step was a call of a move method / of add_new_tile alone
MoveReturned == pc = "ret" /\ op \in MoveNames
SpawnReturned == pc = "ret" /\ op = "add_new_tile"

NonZeroCells(b) == {c \in Cells : b[c[1]][c[2]] # 0}
NonZeroCount(b) == Cardinality(NonZeroCells(b))
EmptyCount(b) == Cardinality(Cells \ NonZeroCells(b))

\* the single-pass rule for one row, position c: the first non-zero cell to
\* the right of c (0 if there is none) decides
FirstNonZero(r, c) ==
    LET K == {k \in (c + 1)..N : r[k] # 0}
    IN  IF K = {} THEN 0 ELSE CHOOSE k \in K : \A m \in K : k <= m

RuleStep(r, c) ==
    LET k == FirstNonZero(r, c)
    IN  IF k = 0 THEN r
        ELSE IF r[c] = 0
             THEN [j \in Idx |-> IF j = c THEN r[k] ELSE IF j = k THEN 0 ELSE r[j]]
        ELSE IF r[c] = r[k]
             THEN [j \in Idx |-> IF j = c THEN 2 * r[c] ELSE IF j = k THEN 0 ELSE r[j]]
        ELSE r

RuleStepChanged(r, c) ==
    LET k == FirstNonZero(r, c)
    IN  k # 0 /\ (r[c] = 0 \/ r[c] = r[k])

RuleRow(r) == RuleStep(RuleStep(RuleStep(r, 1), 2), 3)

RuleRowChanged(r) ==
    \/ RuleStepChanged(r, 1)
    \/ RuleStepChanged(RuleStep(r, 1), 2)
    \/ RuleStepChanged(RuleStep(RuleStep(r, 1), 2), 3)

\* the reflections of a board: every row mirrored, and the transpose
Mirror(b) == [i \in Idx |-> [j \in Idx |-> b[i][N + 1 - j]]]
Transposed(b) == [i \in Idx |-> [j \in Idx |-> b[j][i]]]

\* Left, and the three directions as reflections of Left
LeftOf(b) == move_left(b)
RightOf(b) ==
    LET m == LeftOf(Mirror(b))
    IN  [board |-> Mirror(m.board), changed |-> m.changed]
UpOf(b) ==
    LET m == LeftOf(Transposed(b))
    IN  [board |-> Transposed(m.board), changed |-> m.changed]
DownOf(b) ==
    LET m == RightOf(Transposed(b))
    IN  [board |-> Transposed(m.board), changed |-> m.changed]

(***************************************************************************)
(* Properties of a single call (SpecEngine)                                *)
(***************************************************************************)
\* C1: move_left leaves in every row the result of the single-pass rule
\* (positions 1, 2, 3 in order, the first non-zero cell to the right decides,
\* no re-scan) and returns whether the rule changed some row; row [2,2,2,2]
\* becomes [4,2,2,0] and row [4,0,4,0] becomes [8,0,0,0], both reported changed.
C1_MoveLeftIsSinglePassRule ==
    (pc = "ret" /\ op = "move_left") =>
        /\ \A i \in Idx : board[i] = RuleRow(pre[i])
        /\ ret = (\E i \in Idx : RuleRowChanged(pre[i]))
        /\ \A i \in Idx :
              /\ pre[i] = <<2, 2, 2, 2>> => (board[i] = <<4, 2, 2, 0>> /\ ret)
              /\ pre[i] = <<4, 0, 4, 0>> => (board[i] = <<8, 0, 0, 0>> /\ ret)

C1_Witness ==
    /\ pc = "ret" /\ op = "move_left" /\ ret
    /\ \E i \in Idx : pre[i] = <<2, 2, 2, 2>> /\ board[i] = <<4, 2, 2, 0>>

\* C2: a move in any direction returns false exactly when the board after
\* the call equals the board before it; the all-zero board returns false and
\* stays all-zero.
C2_ChangedIffBoardDiffers ==
    MoveReturned =>
        /\ (ret = FALSE) <=> (board = pre)
        /\ pre = ZeroBoard => (ret = FALSE /\ board = ZeroBoard)

C2_Witness ==
    /\ MoveReturned /\ op = "move_down"
    /\ ret = FALSE /\ board = pre /\ pre # ZeroBoard

\* C3: Right, Up and Down are the reflections of Left, in board and flag:
\* Right = mirror, Left, mirror; Up = transpose, Left, transpose;
\* Down = transpose, Right, transpose. Row [2,4,0,0] under Right becomes
\* [0,0,2,4], reported changed.
C3_DirectionsAreReflections ==
    /\ (pc = "ret" /\ op = "move_right") =>
          /\ [board |-> board, changed |-> ret] = RightOf(pre)
          /\ \A i \in Idx :
                pre[i] = <<2, 4, 0, 0>> => (board[i] = <<0, 0, 2, 4>> /\ ret)
    /\ (pc = "ret" /\ op = "move_up") =>
          [board |-> board, changed |-> ret] = UpOf(pre)
    /\ (pc = "ret" /\ op = "move_down") =>
          [board |-> board, changed |-> ret] = DownOf(pre)

C3_Witness ==
    /\ pc = "ret" /\ op = "move_right" /\ ret
    /\ \E i \in Idx : pre[i] = <<2, 4, 0, 0>> /\ board[i] = <<0, 0, 2, 4>>

\* C5: a move in any direction never raises the number of non-zero cells.
C5_MoveNeverAddsTiles ==
    MoveReturned => NonZeroCount(board) <= NonZeroCount(pre)

C5_Witness ==
    /\ MoveReturned /\ op = "move_up"
    /\ NonZeroCount(board) < NonZeroCount(pre)

\* C6: add_new_tile on a board with an empty cell writes exactly one cell,
\* one that was 0, with 2 or 4, leaves the other cells alone and so lowers
\* the empty-cell count by one, and every empty cell and both values are
\* possible; on a board with no empty cell it leaves the board unchanged.
C6_SpawnWritesOneEmptyCell ==
    /\ SpawnReturned =>
          /\ empty_cells(pre) # {} =>
                /\ \E c \in empty_cells(pre) :
                      /\ board[c[1]][c[2]] \in {2, 4}
                      /\ \A d \in Cells \ {c} : board[d[1]][d[2]] = pre[d[1]][d[2]]
                /\ EmptyCount(board) + 1 = EmptyCount(pre)
          /\ empty_cells(pre) = {} => board = pre
    /\ pc = "call" =>
          LET outcomes == add_new_tile(board)
          IN  \A c \in Cells : \A v \in {2, 4} :
                 board[c[1]][c[2]] = 0 =>
                     [i \in Idx |-> [j \in Idx |->
                         IF <<i, j>> = c THEN v ELSE board[i][j]]] \in outcomes

C6_Witness ==
    /\ SpawnReturned
    /\ EmptyCount(pre) >= 1
    /\ EmptyCount(board) + 1 = EmptyCount(pre)

\* a call of add_new_tile on a full board has returned
C6_FullBoardReached == SpawnReturned /\ EmptyCount(pre) = 0 /\ board = pre

(***************************************************************************)
(* Properties of the program run (Spec)                                    *)
(***************************************************************************)
\* a power of two >= 2
RECURSIVE IsPowerOfTwo(_)
IsPowerOfTwo(v) == v = 2 \/ (v > 2 /\ v % 2 = 0 /\ IsPowerOfTwo(v \div 2))

\* the last step was a loop iteration that called a move method
MoveStepDone == pc = "prompt" /\ op \in MoveNames

\* C4: in every state reachable from the construction of the session by
\* moves and spawns, each of the 16 cells holds 0 or a power of two >= 2.
C4_CellsAreZeroOrPowerOfTwo ==
    \A c \in Cells : board[c[1]][c[2]] = 0 \/ IsPowerOfTwo(board[c[1]][c[2]])

C4_Witness ==
    /\ MoveStepDone /\ ret
    /\ \E c \in Cells : board[c[1]][c[2]] = 8 /\ pre[c[1]][c[2]] # 8

\* C7: right after a Game is constructed exactly two cells are non-zero,
\* each holds 2 or 4, and the other fourteen are 0.
C7_TwoTilesAfterConstruction ==
    op = "__init__" =>
        /\ NonZeroCount(board) = 2
        /\ EmptyCount(board) = 14
        /\ \A c \in NonZeroCells(board) : board[c[1]][c[2]] \in {2, 4}

C7_Witness ==
    /\ pc = "prompt" /\ op = "__init__" /\ inputs = 0
    /\ \E c \in Cells : board[c[1]][c[2]] = 2
    /\ \E c \in Cells : board[c[1]][c[2]] = 4

\* C8: add_new_tile is called twice when the session starts, once in a loop
\* iteration whose move returned true (so before the next line is read) and
\* not at all in one whose move returned false; at every prompt the number of
\* add_new_tile calls is 2 plus the number of moves that returned true.
C8_SpawnCalls ==
    /\ pc = "prompt" => spawns = 2 + changedMoves
    /\ (pc = "prompt" /\ op = "__init__") => (spawned = 2 /\ spawns = 2)
    /\ MoveStepDone =>
          /\ spawned = (IF ret THEN 1 ELSE 0)
          /\ ret => NonZeroCount(board) = NonZeroCount(call_move(op, pre).board) + 1
          /\ ~ ret => board = pre

C8_Witness ==
    /\ MoveStepDone /\ ret
    /\ spawned = 1 /\ spawns = 3 /\ changedMoves = 1

\* a loop iteration whose move returned false has made no add_new_tile call
C8_UnchangedMoveReached == MoveStepDone /\ ~ ret /\ spawned = 0 /\ spawns = 2

\* the lines that are one of w, s, a, d, q after lower-casing
KeyLines == {<<"w">>, <<"s">>, <<"a">>, <<"d">>, <<"q">>}

\* a line has been read and main has not returned past the module tail
LineHandled == inputs >= 1 /\ pc \in {"prompt", "returned"}

\* C9: a line that is not one of w, s, a, d, q after lower-casing makes the
\* loop iteration call no move and no add_new_tile and leave the board as it
\* was, and the loop goes on to the next prompt.
C9_OtherInputIgnored ==
    (LineHandled /\ lower(line) \notin KeyLines) =>
        /\ pc = "prompt"
        /\ op = "none"
        /\ spawned = 0
        /\ board = pre

C9_Witness ==
    /\ LineHandled /\ pc = "prompt"
    /\ line = <<"a", " ">>
    /\ op = "none" /\ spawned = 0 /\ board = pre

\* str.split(): the maximal runs of characters other than the space
RECURSIVE Split(_, _, _)
Split(l, i, cur) ==
    IF i > Len(l) THEN (IF cur = <<>> THEN <<>> ELSE <<cur>>)
    ELSE IF l[i] = " "
         THEN (IF cur = <<>> THEN <<>> ELSE <<cur>>) \o Split(l, i + 1, <<>>)
         ELSE Split(l, i + 1, Append(cur, l[i]))

\* the first token of the lower-cased line that is one of w, s, a, d, q
\* (<<>> if there is none)
FirstRecognizedToken(l) ==
    LET ts == Split(lower(l), 1, <<>>)
        I == {i \in 1..Len(ts) : ts[i] \in KeyLines}
    IN  IF I = {} THEN <<>> ELSE ts[CHOOSE i \in I : \A m \in I : i <= m]

\* what the iteration that read a line did: the move it called and its
\* result, or the return from main
DidMove(name) ==
    /\ pc = "prompt" /\ op = name
    /\ ret = call_move(name, pre).changed
    /\ board \in after_move(call_move(name, pre)).boards
DidQuit == pc = "returned" /\ op = "none" /\ board = pre /\ spawned = 0
DidNothing == pc = "prompt" /\ op = "none" /\ board = pre /\ spawned = 0

\* C10, as claimed: the loop dispatches on the first recognized token of the
\* lower-cased line: w Up, s Down, a Left, d Right, q terminates.
C10_Original ==
    LineHandled =>
        LET t == FirstRecognizedToken(line)
        IN  /\ t = <<"w">> => DidMove("move_up")
            /\ t = <<"s">> => DidMove("move_down")
            /\ t = <<"a">> => DidMove("move_left")
            /\ t = <<"d">> => DidMove("move_right")
            /\ t = <<"q">> => DidQuit

\* C10, amended: the loop dispatches on the whole line: the line w or W
\* calls Up, s or S Down, a or A Left, d or D Right, q or Q terminates, and
\* any other line, one that holds a key among other characters included,
\* does nothing.
C10_DispatchOnWholeLine ==
    LineHandled =>
        /\ line \in {<<"w">>, <<"W">>} => DidMove("move_up")
        /\ line \in {<<"s">>, <<"S">>} => DidMove("move_down")
        /\ line \in {<<"a">>, <<"A">>} => DidMove("move_left")
        /\ line \in {<<"d">>, <<"D">>} => DidMove("move_right")
        /\ line \in {<<"q">>, <<"Q">>} => DidQuit
        /\ (Len(line) # 1 \/ line[1] \notin {"w", "W", "s", "S", "a", "A",
                                             "d", "D", "q", "Q"}) => DidNothing

C10_Witness ==
    /\ LineHandled /\ line = <<"W">>
    /\ DidMove("move_up") /\ ret

(***************************************************************************)
(* Further properties of a single call (SpecEngine)                        *)
(***************************************************************************)
\* a zero cell with a non-zero cell somewhere to its right
HasGap(r) == \E j \in Idx : \E k \in (j + 1)..N : r[j] = 0 /\ r[k] # 0

\* two equal tiles next to each other
HasEqualNeighbours(r) == \E j \in 1..(N - 1) : r[j] # 0 /\ r[j] = r[j + 1]

\* C14, as claimed: there is an input row (put in some row of the board)
\* whose result under Left has a zero cell with a non-zero cell somewhere to
\* its right.
C14_Original ==
    \E i \in Idx : \E r \in AllRows :
        HasGap(move_left([board EXCEPT ![i] = r]).board[i])

\* C14, amended: no row has a zero cell with a non-zero cell to its right
\* after a Left move; what the single pass leaves undone is a merge: a
\* result row can hold two equal tiles next to each other.
C14_NoGapAfterLeft ==
    (pc = "ret" /\ op = "move_left") => \A i \in Idx : ~ HasGap(board[i])

C14_Witness ==
    /\ pc = "ret" /\ op = "move_left" /\ ret
    /\ \E i \in Idx :
          /\ HasGap(pre[i])
          /\ ~ HasGap(board[i])
          /\ HasEqualNeighbours(board[i])

\* the i-th line of a board in the direction of a move: a row for Left and
\* Right, a column for Up and Down
LineOf(b, name, i) ==
    IF name \in {"move_left", "move_right"} THEN b[i]
    ELSE [j \in Idx |-> b[j][i]]

TilesOf(r) == {r[j] : j \in Idx} \ {0}
TileCountOf(r) == Cardinality({j \in Idx : r[j] # 0})

\* C16: a move merges at most once in each line (a row for Left and Right,
\* a column for Up and Down): a line loses at most one tile, the board at
\* most four, and every tile of the resulting line is a tile of the same
\* line before the move or twice one.
C16_OneMergePerLine ==
    MoveReturned =>
        /\ \A i \in Idx :
              LET before == LineOf(pre, op, i)
                  after == LineOf(board, op, i)
              IN  /\ TileCountOf(after) <= TileCountOf(before)
                  /\ TileCountOf(before) <= TileCountOf(after) + 1
                  /\ \A v \in TilesOf(after) :
                        \E u \in TilesOf(before) : v = u \/ v = 2 * u
        /\ NonZeroCount(pre) <= NonZeroCount(board) + 4

C16_Witness ==
    /\ MoveReturned /\ op = "move_down"
    /\ NonZeroCount(pre) = NonZeroCount(board) + 4

(***************************************************************************)
(* Further properties of the program run (Spec)                            *)
(***************************************************************************)
\* C13: one run of the program constructs exactly one Game, the one the
\* game loop plays on.
C13_OneGamePerRun ==
    /\ games <= 1
    /\ pc # "start" => games = 1

(***************************************************************************)
(* Properties of the long run (SpecPlay)                                   *)
(***************************************************************************)
\* a board with no empty cell and no two equal neighbours in a row or column
DeadBoard(b) ==
    /\ \A c \in Cells : b[c[1]][c[2]] # 0
    /\ \A i \in Idx : \A j \in 1..(N - 1) :
           b[i][j] # b[i][j + 1] /\ b[j][i] # b[j + 1][i]

\* C12: a play reaches a board with all 16 cells non-zero that no direction
\* changes; from there every line but q leaves the loop at the prompt with
\* the board as it was, no move returning True and nothing spawned, and q ends
\* the loop
C12_DeadBoardKeepsLooping ==
    /\ (pc = "prompt" /\ DeadBoard(board)) =>
           \A name \in MoveNames :
               call_move(name, board) = [board |-> board, changed |-> FALSE]
    /\ (LineHandled /\ DeadBoard(pre)) =>
           /\ board = pre
           /\ spawned = 0
           /\ op \in MoveNames => ~ ret
           /\ pc = "prompt" <=> lower(line) # <<"q">>
           /\ pc = "returned" <=> lower(line) = <<"q">>

\* two lines were read on the dead board, the last a direction, and the loop
\* is at the prompt again
C12_Witness ==
    /\ pc = "prompt"
    /\ inputs = Len(Play) + 2
    /\ op \in MoveNames
    /\ ~ ret
    /\ spawned = 0
    /\ DeadBoard(pre)
    /\ EmptyCount(board) = 0
    /\ board = pre

SpecPlayEngine == (Init \/ InitEngine) /\ [][NextPlay \/ NextEngine]_vars

\* C15: a move in any direction leaves the sum of the 16 cells as it was; a
\* call of add_new_tile that writes a cell raises the sum by 2 or by 4; at
\* every prompt the sum of the board is the sum of the values the constructor
\* and add_new_tile have written so far
C15_SumIsSpawnedSum ==
    /\ MoveReturned => BoardSum(board) = BoardSum(pre)
    /\ SpawnReturned =>
           IF EmptyCount(pre) = 0 THEN board = pre
           ELSE BoardSum(board) - BoardSum(pre) \in TileChoices
    /\ MoveStepDone =>
           IF ret THEN BoardSum(board) - BoardSum(pre) \in TileChoices
           ELSE BoardSum(board) = BoardSum(pre)
    /\ pc = "prompt" => BoardSum(board) = spawnSum

\* the prompt after the last iteration of the play: 17 tiles were written, a
\* merge has left 16 on the board
C15_Witness ==
    /\ pc = "prompt"
    /\ inputs = Len(Play)
    /\ changedMoves = Len(Play)
    /\ spawns = Len(Play) + 2
    /\ NonZeroCount(board) < spawns
    /\ BoardSum(board) = spawnSum
    /\ spawnSum > 2 * spawns

====
